---- MODULE Spec2Model ----
(***************************************************************************)
(* A model of pacswg's WorkloadGenerator (src/pacswg/wg.py): the pacing    *)
(* calls fire / fire_wait, the worker threads' run loop, the pool          *)
(* lifecycle start_workers / stop_workers, the rate control set_rps and    *)
(* the result list temp_stats with get_stats / reset_stats.                *)
(*                                                                         *)
(* Threads of the model:                                                   *)
(*   - the caller: one thread that makes the calls of the API one after    *)
(*     the other (the pacing loop and the harness around it); cpc is its   *)
(*     position inside start_workers / stop_workers, ppc its position      *)
(*     inside fire_wait, and a new call starts when both are "idle";       *)
(*   - the WorkerThread objects, one record of `threads` each, running     *)
(*     concurrently with the caller and with one another.                  *)
(* Once the generator has been finalized (cpc = "deleted") no call can be  *)
(* made on it any more.                                                    *)
(*                                                                         *)
(* Rates are integers in units of 1/120 request per second, so that the    *)
(* floor 1/60 is 2 and a positive rate below the floor (1) exists.         *)
(* The queue holds the admission tokens; the code puts the constant 1,     *)
(* the model numbers the tokens in admission order so that a token can be  *)
(* followed through the system, and the work function's result carries the *)
(* number of the token whose invocation produced it.                       *)
(* Python lists are heap objects, and reset_stats binds self.temp_stats to  *)
(* a new list while the old one lives on wherever it is still referred to. *)
(* The heap is kept up to renaming of its objects:                         *)
(*   - temp_stats is the content of the list self.temp_stats is bound to   *)
(*     ("cur");                                                            *)
(*   - held is the content of the list the last get_stats call returned,   *)
(*     once reset_stats has unbound it from self.temp_stats ("held");      *)
(*   - a list that only a worker's pending append refers to ("lost") is    *)
(*     never read again, and its content is not kept.                      *)
(* snap says which list the last get_stats result is, and a worker's lst   *)
(* which list its evaluated `self.parent.temp_stats` is.                   *)
(***************************************************************************)
EXTENDS Integers, Sequences, FiniteSets, TLC

\* ---- bounds of the model
MaxWorkers == 2
MaxFire == 2
MaxRate == 3
MaxDelay == 1
MaxElapsed == 1

\* ---- program constants, in units of 1/120 request per second
MIN_RPS == 2

MaxThreads == 2 * MaxWorkers
ThreadIds == 1..MaxThreads
Tokens == 1..MaxFire
RateInputs == 0..MaxRate

\* worker_threads = None
None == <<0>>

VARIABLES
    rps,                 \* self.rps
    worker_thread_count, \* self.worker_thread_count
    worker_threads,      \* self.worker_threads: None or the list of thread ids
    worker_func,         \* the supplied work function: "returns" or "may_raise"
    temp_stats,          \* the list self.temp_stats is bound to
    held,                \* the list get_stats returned, after reset_stats replaced it
    q,                   \* self.q: the queued tokens, oldest first
    threads,             \* the WorkerThread objects
    generation,          \* parity of the number of pools created
    cpc, cop, ci,        \* caller inside start/stop_workers: position, call, loop index
    ppc, delay_arg, wait_time, \* caller inside fire_wait: position and locals
    snap,                \* the last get_stats result: "none", "cur" or "held"
    ret,                 \* the call that returned in the last step: <<name, argument, value>>
    stops,               \* how many stop_workers calls in a row have returned (up to 2)
    fired, dequeued, invoked, appended, was_reset \* history

vars == <<rps, worker_thread_count, worker_threads, worker_func, temp_stats, held,
          q, threads, generation, cpc, cop, ci, ppc, delay_arg, wait_time,
          snap, ret, stops, fired, dequeued, invoked, appended, was_reset>>

poolVars == <<worker_thread_count, worker_threads, threads, generation, cpc, cop, ci>>
paceVars == <<ppc, delay_arg, wait_time>>
histVars == <<fired, dequeued, invoked, appended, was_reset>>

\* no call returned in the last step
NoRet == <<"none", 0, "None">>

NoThread == [pc |-> "free", stop_signal |-> FALSE, tok |-> 0, lst |-> "none", gen |-> 0]

\* threading.Thread.is_alive(): started and run() has not ended
Alive(t) == threads[t].pc \notin {"free", "done", "crashed"}
AliveSet == {t \in ThreadIds : Alive(t)}

Init ==
    /\ rps \in RateInputs
    /\ worker_thread_count \in 1..MaxWorkers
    /\ worker_threads = None
    /\ worker_func \in {"returns", "may_raise"}
    /\ temp_stats = <<>>
    /\ held = <<>>
    /\ q = <<>>
    /\ threads = [t \in ThreadIds |-> NoThread]
    /\ generation = 0
    /\ cpc = "idle" /\ cop = "none" /\ ci = 0
    /\ ppc = "idle" /\ delay_arg = 0 /\ wait_time = 0
    /\ snap = "none" /\ ret = NoRet /\ stops = 0
    /\ fired = 0 /\ dequeued = 0 /\ invoked = 0 /\ appended = {} /\ was_reset = FALSE

\* ---------------------------------------------------------------------------
\* WorkerThread.run, one action per interleaving point
\* ---------------------------------------------------------------------------

\* mutant of WorkerCheck: a flagged worker goes on while tokens are queued
WorkerCheck_Drains(t) ==
    /\ threads[t].pc = "check"
    /\ threads' = [threads EXCEPT ![t].pc =
                     IF threads[t].stop_signal /\ q = <<>> THEN "done" ELSE "get"]
    /\ ret' = NoRet
    /\ UNCHANGED <<stops, rps, worker_thread_count, worker_threads, worker_func, temp_stats, held,
                   q, generation, cpc, cop, ci, paceVars, snap, histVars>>

\* while not self.stop_signal
WorkerCheck(t) ==
    /\ threads[t].pc = "check"
    /\ threads' = [threads EXCEPT ![t].pc = IF threads[t].stop_signal THEN "done" ELSE "get"]
    /\ ret' = NoRet
    /\ UNCHANGED <<stops, rps, worker_thread_count, worker_threads, worker_func, temp_stats, held,
                   q, generation, cpc, cop, ci, paceVars, snap, histVars>>

\* mutant of WorkerGet: the `item is None` test inverted, the token is taken and
\* dropped without an invocation
WorkerGet_Drop(t) ==
    /\ threads[t].pc = "get"
    /\ q # <<>>
    /\ threads' = [threads EXCEPT ![t].pc = "check"]
    /\ q' = Tail(q)
    /\ dequeued' = dequeued + 1
    /\ ret' = NoRet
    /\ UNCHANGED <<rps, worker_thread_count, worker_threads, worker_func, temp_stats, held,
                   generation, cpc, cop, ci, paceVars, snap, stops,
                   fired, invoked, appended, was_reset>>

\* item = self.parent.q.get(timeout=1) returns a token (fire only ever puts 1, so
\* the `item is None` branch is not taken)
WorkerGet(t) ==
    /\ threads[t].pc = "get"
    /\ q # <<>>
    /\ threads' = [threads EXCEPT ![t].pc = "call", ![t].tok = Head(q)]
    /\ q' = Tail(q)
    /\ dequeued' = dequeued + 1
    /\ ret' = NoRet
    /\ UNCHANGED <<rps, worker_thread_count, worker_threads, worker_func, temp_stats, held,
                   generation, cpc, cop, ci, paceVars, snap, stops,
                   fired, invoked, appended, was_reset>>

\* self.parent.worker_func() is entered
WorkerCall(t) ==
    /\ threads[t].pc = "call"
    /\ threads' = [threads EXCEPT ![t].pc = "run"]
    /\ invoked' = invoked + 1
    /\ ret' = NoRet
    /\ UNCHANGED <<rps, worker_thread_count, worker_threads, worker_func, temp_stats, held,
                   q, generation, cpc, cop, ci, paceVars, snap, stops,
                   fired, dequeued, appended, was_reset>>

\* mutant of WorkerEmpty: the timeout path falls through to the invocation
WorkerEmpty_Invokes(t) ==
    /\ threads[t].pc = "get"
    /\ q = <<>>
    /\ threads' = [threads EXCEPT ![t].pc = "run"]
    /\ invoked' = invoked + 1
    /\ ret' = NoRet
    /\ UNCHANGED <<rps, worker_thread_count, worker_threads, worker_func, temp_stats, held,
                   q, generation, cpc, cop, ci, paceVars, snap, stops,
                   fired, dequeued, appended, was_reset>>

\* mutant of WorkerEmpty: q.get() without a timeout, the worker stays blocked on
\* the empty queue
WorkerEmpty_Blocks(t) ==
    /\ threads[t].pc = "get"
    /\ q = <<>>
    /\ threads' = [threads EXCEPT ![t].pc = "get"]
    /\ ret' = NoRet
    /\ UNCHANGED <<stops, rps, worker_thread_count, worker_threads, worker_func, temp_stats, held,
                   q, generation, cpc, cop, ci, paceVars, snap, histVars>>

\* q.get times out on an empty queue: except queue.Empty, sleep, continue
WorkerEmpty(t) ==
    /\ threads[t].pc = "get"
    /\ q = <<>>
    /\ threads' = [threads EXCEPT ![t].pc = "check"]
    /\ ret' = NoRet
    /\ UNCHANGED <<stops, rps, worker_thread_count, worker_threads, worker_func, temp_stats, held,
                   q, generation, cpc, cop, ci, paceVars, snap, histVars>>

\* worker_func returns, res is bound, and self.parent.temp_stats is evaluated:
\* the list the append will go to
WorkerReturn(t) ==
    /\ threads[t].pc = "run"
    /\ threads' = [threads EXCEPT ![t].pc = "append", ![t].lst = "cur"]
    /\ ret' = NoRet
    /\ UNCHANGED <<stops, rps, worker_thread_count, worker_threads, worker_func, temp_stats, held,
                   q, generation, cpc, cop, ci, paceVars, snap, histVars>>

\* mutant of WorkerRaise: run() catches the exception and goes on with the loop
WorkerRaise_Caught(t) ==
    /\ threads[t].pc = "run"
    /\ worker_func = "may_raise"
    /\ threads' = [threads EXCEPT ![t].pc = "check", ![t].tok = 0]
    /\ ret' = NoRet
    /\ UNCHANGED <<stops, rps, worker_thread_count, worker_threads, worker_func, temp_stats, held,
                   q, generation, cpc, cop, ci, paceVars, snap, histVars>>

\* mutant of WorkerRaise: the exception takes every running worker down
WorkerRaise_KillsPool(t) ==
    /\ threads[t].pc = "run"
    /\ worker_func = "may_raise"
    /\ threads' = [u \in ThreadIds |->
                     IF Alive(u)
                     THEN [threads[u] EXCEPT !.pc = "crashed", !.tok = 0] ELSE threads[u]]
    /\ ret' = NoRet
    /\ UNCHANGED <<stops, rps, worker_thread_count, worker_threads, worker_func, temp_stats, held,
                   q, generation, cpc, cop, ci, paceVars, snap, histVars>>

\* worker_func raises: run() catches queue.Empty only, the thread ends
WorkerRaise(t) ==
    /\ threads[t].pc = "run"
    /\ worker_func = "may_raise"
    /\ threads' = [threads EXCEPT ![t].pc = "crashed", ![t].tok = 0]
    /\ ret' = NoRet
    /\ UNCHANGED <<stops, rps, worker_thread_count, worker_threads, worker_func, temp_stats, held,
                   q, generation, cpc, cop, ci, paceVars, snap, histVars>>

\* mutant of WorkerAppend: the record is inserted at the head of the list
WorkerAppend_Front(t) ==
    /\ threads[t].pc = "append"
    /\ threads' = [threads EXCEPT ![t].pc = "check", ![t].tok = 0, ![t].lst = "none"]
    /\ temp_stats' = IF threads[t].lst = "cur"
                     THEN <<threads[t].tok>> \o temp_stats ELSE temp_stats
    /\ held' = IF threads[t].lst = "held" THEN <<threads[t].tok>> \o held ELSE held
    /\ appended' = appended \cup {threads[t].tok}
    /\ ret' = NoRet
    /\ UNCHANGED <<stops, rps, worker_thread_count, worker_threads, worker_func,
                   q, generation, cpc, cop, ci, paceVars, snap,
                   fired, dequeued, invoked, was_reset>>

\* mutant of WorkerAppend: the append is a read and a write-back of the list, and
\* a write-back concurrent with another thread's loses the record
WorkerAppend_Lost(t) ==
    /\ threads[t].pc = "append"
    /\ threads' = [threads EXCEPT ![t].pc = "check", ![t].tok = 0, ![t].lst = "none"]
    /\ temp_stats' = IF /\ threads[t].lst = "cur"
                        /\ ~\E u \in ThreadIds \ {t} : threads[u].pc = "append"
                     THEN Append(temp_stats, threads[t].tok) ELSE temp_stats
    /\ held' = IF threads[t].lst = "held" THEN Append(held, threads[t].tok) ELSE held
    /\ appended' = appended \cup {threads[t].tok}
    /\ ret' = NoRet
    /\ UNCHANGED <<stops, rps, worker_thread_count, worker_threads, worker_func,
                   q, generation, cpc, cop, ci, paceVars, snap,
                   fired, dequeued, invoked, was_reset>>

\* .append(res) on that list (one atomic list operation), back to the loop test
WorkerAppend(t) ==
    /\ threads[t].pc = "append"
    /\ threads' = [threads EXCEPT ![t].pc = "check", ![t].tok = 0, ![t].lst = "none"]
    /\ temp_stats' = IF threads[t].lst = "cur"
                     THEN Append(temp_stats, threads[t].tok) ELSE temp_stats
    /\ held' = IF threads[t].lst = "held" THEN Append(held, threads[t].tok) ELSE held
    /\ appended' = appended \cup {threads[t].tok}
    /\ ret' = NoRet
    /\ UNCHANGED <<stops, rps, worker_thread_count, worker_threads, worker_func,
                   q, generation, cpc, cop, ci, paceVars, snap,
                   fired, dequeued, invoked, was_reset>>

Worker(t) ==
    \/ WorkerCheck(t)
    \/ WorkerGet(t)
    \/ WorkerEmpty(t)
    \/ WorkerCall(t)
    \/ WorkerReturn(t)
    \/ WorkerRaise(t)
    \/ WorkerAppend(t)

\* ---------------------------------------------------------------------------
\* WorkloadGenerator.stop_workers and start_workers
\* ---------------------------------------------------------------------------

\* the caller is between two calls
Idle == cpc = "idle" /\ ppc = "idle"

\* stop_workers returns True; inside start_workers the value is dropped and
\* start_workers goes on to `self.worker_threads = []`; inside __del__ the value
\* is dropped and the object is gone
StopExit(op) ==
    IF op = "stop"
    THEN /\ cpc' = "idle" /\ cop' = "none" /\ ci' = 0
         /\ ret' = <<"stop_workers", 0, "True">>
         /\ stops' = IF stops < 2 THEN stops + 1 ELSE 2
    ELSE IF op = "start"
         THEN /\ cpc' = "start_clear" /\ cop' = op /\ ci' = 0
              /\ ret' = NoRet
              /\ stops' = 0
         ELSE /\ cpc' = "deleted" /\ cop' = "none" /\ ci' = 0
              /\ ret' = <<"__del__", 0, "None">>
              /\ stops' = 0

\* mutant of StopEntry: the `is not None` test is missing, iterating None raises
StopEntry_NoNoneCheck(op) ==
    IF worker_threads = None
    THEN /\ cpc' = "idle" /\ cop' = "none" /\ ci' = 0
         /\ ret' = <<"stop_workers", 0, "raise">>
         /\ stops' = 0
    ELSE IF Len(worker_threads) > 0
         THEN /\ cpc' = "stop_flag" /\ cop' = op /\ ci' = 1
              /\ ret' = NoRet
              /\ stops' = IF op = "stop" THEN stops ELSE 0
         ELSE StopExit(op)

\* stop_workers is entered: `if self.worker_threads is not None`
StopEntry(op) ==
    IF worker_threads # None /\ Len(worker_threads) > 0
    THEN /\ cpc' = "stop_flag" /\ cop' = op /\ ci' = 1
         /\ ret' = NoRet
         /\ stops' = IF op = "stop" THEN stops ELSE 0
    ELSE StopExit(op)

\* a call of stop_workers()
StopWorkersCall ==
    /\ Idle
    /\ StopEntry("stop")
    /\ UNCHANGED <<rps, worker_thread_count, worker_threads, worker_func, temp_stats, held,
                   q, threads, generation, paceVars, snap, histVars>>

\* first loop of stop_workers: worker_thread.stop_signal = True
StopFlag ==
    /\ cpc = "stop_flag"
    /\ threads' = [threads EXCEPT ![worker_threads[ci]].stop_signal = TRUE]
    /\ IF ci < Len(worker_threads)
       THEN ci' = ci + 1 /\ UNCHANGED cpc
       ELSE ci' = 1 /\ cpc' = "stop_join"
    /\ ret' = NoRet
    /\ UNCHANGED <<stops, rps, worker_thread_count, worker_threads, worker_func, temp_stats, held,
                   q, generation, cop, paceVars, snap, histVars>>

\* mutant of StopJoin: the second loop does not wait for the thread to end
StopJoin_NoWait ==
    /\ cpc = "stop_join"
    /\ IF ci < Len(worker_threads)
       THEN ci' = ci + 1 /\ ret' = NoRet /\ UNCHANGED <<cpc, cop, stops>>
       ELSE StopExit(cop)
    /\ UNCHANGED <<rps, worker_thread_count, worker_threads, worker_func, temp_stats, held,
                   q, threads, generation, paceVars, snap, histVars>>

\* second loop of stop_workers: worker_thread.join() returns once the thread ended
StopJoin ==
    /\ cpc = "stop_join"
    /\ ~Alive(worker_threads[ci])
    /\ IF ci < Len(worker_threads)
       THEN ci' = ci + 1 /\ ret' = NoRet /\ UNCHANGED <<cpc, cop, stops>>
       ELSE StopExit(cop)
    /\ UNCHANGED <<rps, worker_thread_count, worker_threads, worker_func, temp_stats, held,
                   q, threads, generation, paceVars, snap, histVars>>

\* mutant of StartWorkersCall: the pool is rebuilt without stopping the old one
StartWorkersCall_NoStop ==
    /\ Idle
    /\ cpc' = "start_clear" /\ cop' = "start" /\ ci' = 0
    /\ ret' = NoRet
    /\ stops' = 0
    /\ UNCHANGED <<rps, worker_thread_count, worker_threads, worker_func, temp_stats, held,
                   q, threads, generation, paceVars, snap, histVars>>

\* a call of start_workers(): its first statement is self.stop_workers()
StartWorkersCall ==
    /\ Idle
    /\ StopEntry("start")
    /\ UNCHANGED <<rps, worker_thread_count, worker_threads, worker_func, temp_stats, held,
                   q, threads, generation, paceVars, snap, histVars>>

\* mutant of StartClear: the new pool gets a new, empty queue
StartClear_NewQueue ==
    /\ cpc = "start_clear"
    /\ worker_threads' = <<>>
    /\ q' = <<>>
    /\ threads' = [t \in ThreadIds |-> IF Alive(t) THEN threads[t] ELSE NoThread]
    /\ generation' = 1 - generation
    /\ IF worker_thread_count > 0
       THEN cpc' = "start_spawn" /\ ci' = 1 /\ ret' = NoRet /\ UNCHANGED cop
       ELSE cpc' = "idle" /\ ci' = 0 /\ cop' = "none" /\ ret' = <<"start_workers", 0, "None">>
    /\ UNCHANGED <<stops, rps, worker_thread_count, worker_func, temp_stats, held,
                   paceVars, snap, histVars>>

\* self.worker_threads = []: the ended threads of the old list are unreferenced
StartClear ==
    /\ cpc = "start_clear"
    /\ worker_threads' = <<>>
    /\ threads' = [t \in ThreadIds |-> IF Alive(t) THEN threads[t] ELSE NoThread]
    /\ generation' = 1 - generation
    /\ IF worker_thread_count > 0
       THEN cpc' = "start_spawn" /\ ci' = 1 /\ ret' = NoRet /\ UNCHANGED cop
       ELSE cpc' = "idle" /\ ci' = 0 /\ cop' = "none" /\ ret' = <<"start_workers", 0, "None">>
    /\ UNCHANGED <<stops, rps, worker_thread_count, worker_func, temp_stats, held,
                   q, paceVars, snap, histVars>>

\* one round of `for i in range(self.worker_thread_count)`:
\* WorkerThread(self), start(), self.worker_threads.append(worker_thread)
StartSpawn ==
    /\ cpc = "start_spawn"
    /\ \E t \in ThreadIds :
        /\ threads[t].pc = "free"
        /\ \A u \in ThreadIds : threads[u].pc = "free" => t <= u
        /\ threads' = [threads EXCEPT ![t] =
               [pc |-> "check", stop_signal |-> FALSE, tok |-> 0, lst |-> "none",
                gen |-> generation]]
        /\ worker_threads' = Append(worker_threads, t)
    /\ IF ci < worker_thread_count
       THEN ci' = ci + 1 /\ ret' = NoRet /\ UNCHANGED <<cpc, cop>>
       ELSE cpc' = "idle" /\ ci' = 0 /\ cop' = "none" /\ ret' = <<"start_workers", 0, "None">>
    /\ UNCHANGED <<stops, rps, worker_thread_count, worker_func, temp_stats, held,
                   q, generation, paceVars, snap, histVars>>

\* the harness sets the worker count of the next pool (attribute assignment)
SetWorkerCount(n) ==
    /\ Idle
    /\ n # worker_thread_count
    /\ worker_thread_count' = n
    /\ ret' = NoRet
    /\ stops' = 0
    /\ UNCHANGED <<rps, worker_threads, worker_func, temp_stats, held, q, threads,
                   generation, cpc, cop, ci, paceVars, snap, histVars>>

\* mutant of Del: the object is dropped without the finalizer's stop_workers
Del_NoStop ==
    /\ Idle
    /\ AliveSet = {}
    /\ cpc' = "deleted" /\ cop' = "none" /\ ci' = 0
    /\ ret' = <<"__del__", 0, "None">>
    /\ stops' = 0
    /\ UNCHANGED <<rps, worker_thread_count, worker_threads, worker_func, temp_stats, held,
                   q, threads, generation, paceVars, snap, histVars>>

\* __del__(): self.stop_workers(). The finalizer runs when nothing refers to the
\* generator any more: the caller has dropped it and no running WorkerThread
\* holds it as self.parent
Del ==
    /\ Idle
    /\ AliveSet = {}
    /\ StopEntry("del")
    /\ UNCHANGED <<rps, worker_thread_count, worker_threads, worker_func, temp_stats, held,
                   q, threads, generation, paceVars, snap, histVars>>

\* ---------------------------------------------------------------------------
\* fire and fire_wait
\* ---------------------------------------------------------------------------

\* get_random_wait_time(rps): scale = 1/rps raises ZeroDivisionError for 0 and
\* numpy rejects a negative scale; otherwise any delay >= 0 can be drawn
get_random_wait_time(r) ==
    IF r <= 0
    THEN {[raised |-> TRUE, delay |-> 0]}
    ELSE {[raised |-> FALSE, delay |-> d] : d \in 0..MaxDelay}

\* fire(): self.q.put(1)
Fire ==
    /\ Idle
    /\ fired < MaxFire
    /\ q' = Append(q, fired + 1)
    /\ fired' = fired + 1
    /\ ret' = <<"fire", 0, "None">>
    /\ stops' = 0
    /\ UNCHANGED <<rps, poolVars, worker_func, temp_stats, held, paceVars, snap,
                   dequeued, invoked, appended, was_reset>>

\* fire_wait(): self.fire_timer.tic(); self.fire()
FireWaitFire ==
    /\ Idle
    /\ fired < MaxFire
    /\ q' = Append(q, fired + 1)
    /\ fired' = fired + 1
    /\ ppc' = "sample"
    /\ ret' = NoRet
    /\ stops' = 0
    /\ UNCHANGED <<rps, poolVars, worker_func, temp_stats, held, delay_arg, wait_time,
                   snap, dequeued, invoked, appended, was_reset>>

\* wait_time = self.delay_func(self.rps) - self.fire_timer.toc()
FireWaitSample ==
    /\ ppc = "sample"
    /\ delay_arg' = rps
    /\ \E o \in get_random_wait_time(rps) :
        IF o.raised
        THEN ppc' = "raise" /\ wait_time' = 0
        ELSE \E e \in 0..MaxElapsed : ppc' = "wait" /\ wait_time' = o.delay - e
    /\ ret' = NoRet
    /\ UNCHANGED <<stops, rps, poolVars, worker_func, temp_stats, held, q, snap, histVars>>

\* if wait_time > 0: time.sleep(wait_time), then return
FireWaitSleep ==
    /\ ppc = "wait"
    /\ wait_time > 0
    /\ ppc' = "idle" /\ delay_arg' = 0 /\ wait_time' = 0
    /\ ret' = <<"fire_wait", 0, "None">>
    /\ UNCHANGED <<stops, rps, poolVars, worker_func, temp_stats, held, q, snap, histVars>>

\* mutant of FireWaitReturn: a call that is late fires once more to catch up
FireWaitReturn_CatchUp ==
    /\ ppc = "wait"
    /\ wait_time <= 0
    /\ ppc' = "idle" /\ delay_arg' = 0 /\ wait_time' = 0
    /\ IF wait_time < 0 /\ fired < MaxFire
       THEN q' = Append(q, fired + 1) /\ fired' = fired + 1
       ELSE UNCHANGED <<q, fired>>
    /\ ret' = <<"fire_wait", 0, "None">>
    /\ UNCHANGED <<stops, rps, poolVars, worker_func, temp_stats, held, snap,
                   dequeued, invoked, appended, was_reset>>

\* wait_time <= 0: return at once
FireWaitReturn ==
    /\ ppc = "wait"
    /\ wait_time <= 0
    /\ ppc' = "idle" /\ delay_arg' = 0 /\ wait_time' = 0
    /\ ret' = <<"fire_wait", 0, "None">>
    /\ UNCHANGED <<stops, rps, poolVars, worker_func, temp_stats, held, q, snap, histVars>>

\* the sampler's exception leaves fire_wait
FireWaitRaise ==
    /\ ppc = "raise"
    /\ ppc' = "idle" /\ delay_arg' = 0 /\ wait_time' = 0
    /\ ret' = <<"fire_wait", 0, "raise">>
    /\ UNCHANGED <<stops, rps, poolVars, worker_func, temp_stats, held, q, snap, histVars>>

\* ---------------------------------------------------------------------------
\* set_rps, get_stats, reset_stats
\* ---------------------------------------------------------------------------

\* mutant of SetRps: the floor test is missing
SetRps_NoClamp(new_rps) ==
    /\ Idle
    /\ rps' = new_rps
    /\ ret' = <<"set_rps", new_rps, "True">>
    /\ stops' = 0
    /\ UNCHANGED <<poolVars, worker_func, temp_stats, held, q, paceVars, snap, histVars>>

\* set_rps(new_rps)
SetRps(new_rps) ==
    /\ Idle
    /\ rps' = IF new_rps < MIN_RPS THEN MIN_RPS ELSE new_rps
    /\ ret' = <<"set_rps", new_rps, "True">>
    /\ stops' = 0
    /\ UNCHANGED <<poolVars, worker_func, temp_stats, held, q, paceVars, snap, histVars>>

\* mutant of GetStats: a copy of the list is returned (list(self.temp_stats))
GetStats_Copy ==
    /\ Idle
    /\ snap' = "held"
    /\ held' = temp_stats
    /\ threads' = [t \in ThreadIds |->
                     IF threads[t].lst = "held"
                     THEN [threads[t] EXCEPT !.lst = "lost"] ELSE threads[t]]
    /\ ret' = <<"get_stats", 0, "list">>
    /\ stops' = 0
    /\ UNCHANGED <<rps, worker_thread_count, worker_threads, generation, cpc, cop, ci,
                   worker_func, temp_stats, q, paceVars, histVars>>

\* mutant of GetStats: the records are handed out and the collector starts anew
GetStats_Drains ==
    /\ Idle
    /\ snap' = "held"
    /\ held' = temp_stats
    /\ temp_stats' = <<>>
    /\ threads' = [t \in ThreadIds |->
                     IF threads[t].lst = "held"
                     THEN [threads[t] EXCEPT !.lst = "lost"]
                     ELSE IF threads[t].lst = "cur"
                          THEN [threads[t] EXCEPT !.lst = "held"] ELSE threads[t]]
    /\ ret' = <<"get_stats", 0, "list">>
    /\ stops' = 0
    /\ UNCHANGED <<rps, worker_thread_count, worker_threads, generation, cpc, cop, ci,
                   worker_func, q, paceVars, histVars>>

\* mutant of GetStats: the list handed out by the call before is returned again
GetStats_Stale ==
    /\ Idle
    /\ snap' = IF snap = "held" THEN "held" ELSE "cur"
    /\ ret' = <<"get_stats", 0, "list">>
    /\ stops' = 0
    /\ UNCHANGED <<rps, worker_thread_count, worker_threads, generation, cpc, cop, ci,
                   worker_func, temp_stats, held, threads, q, paceVars, histVars>>

\* get_stats(): return self.temp_stats (the list itself, not a copy); the list
\* the harness held from the call before is dropped
GetStats ==
    /\ Idle
    /\ snap' = "cur"
    /\ held' = <<>>
    /\ threads' = [t \in ThreadIds |->
                     IF threads[t].lst = "held"
                     THEN [threads[t] EXCEPT !.lst = "lost"] ELSE threads[t]]
    /\ ret' = <<"get_stats", 0, "list">>
    /\ stops' = 0
    /\ UNCHANGED <<rps, worker_thread_count, worker_threads, generation, cpc, cop, ci,
                   worker_func, temp_stats, q, paceVars, histVars>>

\* mutant of ResetStats: True is returned without binding a new list
ResetStats_NoRebind ==
    /\ Idle
    /\ ret' = <<"reset_stats", 0, "True">>
    /\ was_reset' = TRUE
    /\ stops' = 0
    /\ UNCHANGED <<rps, worker_thread_count, worker_threads, generation, cpc, cop, ci,
                   worker_func, q, paceVars, fired, dequeued, invoked, appended,
                   temp_stats, held, snap, threads>>

\* reset_stats(): self.temp_stats = [] binds a new empty list, the old list stays
\* with whoever refers to it; return True
ResetStats ==
    /\ Idle
    /\ temp_stats' = <<>>
    /\ held' = IF snap = "cur" THEN temp_stats ELSE held
    /\ snap' = IF snap = "cur" THEN "held" ELSE snap
    /\ threads' = [t \in ThreadIds |->
                     IF threads[t].lst = "cur"
                     THEN [threads[t] EXCEPT !.lst = IF snap = "cur" THEN "held" ELSE "lost"]
                     ELSE threads[t]]
    /\ ret' = <<"reset_stats", 0, "True">>
    /\ was_reset' = TRUE
    /\ stops' = 0
    /\ UNCHANGED <<rps, worker_thread_count, worker_threads, generation, cpc, cop, ci,
                   worker_func, q, paceVars, fired, dequeued, invoked, appended>>

Next ==
    \/ \E t \in ThreadIds : Worker(t)
    \/ StopWorkersCall
    \/ StopFlag
    \/ StopJoin
    \/ StartWorkersCall
    \/ StartClear
    \/ StartSpawn
    \/ \E n \in 1..MaxWorkers : SetWorkerCount(n)
    \/ Fire
    \/ FireWaitFire
    \/ FireWaitSample
    \/ FireWaitSleep
    \/ FireWaitReturn
    \/ FireWaitRaise
    \/ \E r \in RateInputs : SetRps(r)
    \/ GetStats
    \/ ResetStats
    \/ Del

Spec == Init /\ [][Next]_vars

\* Threads are scheduled by the operating system: a worker that can take a step
\* eventually takes one. Nothing is assumed of the caller.
LiveSpec == Init /\ [][Next]_vars /\ \A t \in ThreadIds : WF_vars(Worker(t))

\* The caller is a thread too: inside stop_workers it goes on with its loops,
\* the join as soon as the joined thread has ended.
StopLiveSpec ==
    /\ Init /\ [][Next]_vars
    /\ \A t \in ThreadIds : WF_vars(Worker(t))
    /\ WF_vars(StopFlag)
    /\ WF_vars(StopJoin)

\* ---------------------------------------------------------------------------
\* Properties
\* ---------------------------------------------------------------------------

Range(seq) == {seq[i] : i \in 1..Len(seq)}
NoDup(seq) == \A i, j \in 1..Len(seq) : seq[i] = seq[j] => i = j

\* a worker of the pool is running and has not been told to stop
Serving == \E t \in ThreadIds : Alive(t) /\ ~threads[t].stop_signal

\* C1: with a work function that always returns, if from some point on a worker
\* is always running and not stopped, then every token that fire() or fire_wait()
\* has enqueued is eventually taken, its invocation made and the result appended
\* (to the collector itself when no reset_stats has rebound it): no token stays
\* unserviced, however many are queued.
C1_TokenServiced ==
    (worker_func = "returns") =>
        \A k \in Tokens :
            <>[]Serving =>
                [](fired >= k => <>(k \in appended /\ (~was_reset => k \in Range(temp_stats))))

\* C1 witness: one worker, every token admitted and serviced, the pool still up
C1_Witness ==
    /\ worker_func = "returns"
    /\ Serving
    /\ Cardinality(AliveSet) = 1
    /\ fired = MaxFire
    /\ appended = Tokens
    /\ ~was_reset
    /\ Len(temp_stats) = MaxFire

\* the workers that hold a token they took and have not yet passed to worker_func
Holding == {t \in ThreadIds : threads[t].pc = "call"}
\* the workers inside worker_func, and those with its result not yet appended
Invoking == {t \in ThreadIds : threads[t].pc = "run"}
Appending == {t \in ThreadIds : threads[t].pc = "append"}

\* C2: one invocation per dequeued token. Invocations started never exceed the
\* tokens dequeued, which never exceed the tokens enqueued; every token taken is
\* either still in the hand of the worker that took it or has had its one
\* invocation started; a worker is inside worker_func or holds its result only
\* with a token it took, no two workers with the same token, and none that is
\* still queued; and a worker that holds a token can only go on to invoke
\* worker_func: it neither takes another token nor exits first.
C2_OneInvocationPerToken ==
    /\ [](/\ invoked <= dequeued
          /\ dequeued <= fired
          /\ dequeued = fired - Len(q)
          /\ invoked = dequeued - Cardinality(Holding)
          /\ \A t \in Holding \cup Invoking \cup Appending :
                /\ threads[t].tok \in 1..fired
                /\ threads[t].tok \notin Range(q)
                /\ threads[t].tok \notin appended
                /\ \A u \in Holding \cup Invoking \cup Appending :
                      threads[u].tok = threads[t].tok => u = t
          /\ \A t \in ThreadIds \ (Holding \cup Invoking \cup Appending) :
                threads[t].tok = 0)
    /\ [][\A t \in ThreadIds :
            /\ threads[t].pc = "call" =>
                  /\ threads'[t].pc \in {"call", "run"}
                  /\ threads'[t].tok = threads[t].tok
            /\ (threads[t].pc # "run" /\ threads'[t].pc = "run") =>
                  /\ threads[t].pc = "call"
                  /\ invoked' = invoked + 1
            /\ (threads[t].pc = "run" /\ threads'[t].pc # "run") =>
                  threads'[t].pc \in {"append", "crashed"}]_vars

\* C2 witness: both workers have taken a token; one is inside worker_func, the
\* other still holds its token
C2_Witness ==
    /\ Cardinality(Holding) = 1
    /\ Cardinality(Invoking) = 1
    /\ dequeued = 2
    /\ invoked = 1

\* C3 (as claimed): in every state the stored rate is at least the floor, and
\* fire_wait never hands the sampler a rate below it. __init__ stores its rps
\* argument as it is, so this fails from the first state.
C3_RateAtLeastFloor ==
    /\ rps >= MIN_RPS
    /\ (ppc \in {"wait", "raise"} => delay_arg >= MIN_RPS)

\* C4: set_rps(r) returns True and leaves the rate at r when r is at least the
\* floor and at the floor otherwise, whatever r is (no upper clamp) and in every
\* state in which it is called; the rate fire_wait hands the sampler is the
\* stored rate of that moment; and the step of set_rps changes nothing but the
\* rate.
C4_SetRps ==
    /\ [](/\ ret[1] = "set_rps" =>
                /\ ret[3] = "True"
                /\ rps = IF ret[2] >= MIN_RPS THEN ret[2] ELSE MIN_RPS
          /\ ppc \in {"wait", "raise"} => delay_arg = rps
          /\ Idle => \A r \in RateInputs : ENABLED SetRps(r))
    /\ [][ret'[1] = "set_rps" =>
            UNCHANGED <<worker_thread_count, worker_threads, worker_func, temp_stats, held,
                        q, threads, generation, cpc, cop, ci, ppc, delay_arg, wait_time,
                        snap, fired, dequeued, invoked, appended, was_reset>>]_vars

\* C4 witness: set_rps was called with a rate below the floor while a pool was
\* up and a token queued, and the rate is now the floor
C4_Witness ==
    /\ ret = <<"set_rps", 1, "True">>
    /\ rps = MIN_RPS
    /\ AliveSet # {}
    /\ q # <<>>

\* the threads of self.worker_threads
Pool == IF worker_threads = None THEN {} ELSE Range(worker_threads)
Crashed == {t \in ThreadIds : threads[t].pc = "crashed"}

\* live workers are workers of the current pool, all of one generation, and
\* while start_workers waits to rebuild the list none is left
OnePool ==
    /\ AliveSet \subseteq Pool
    /\ \A t \in AliveSet : threads[t].gen = generation
    /\ worker_threads # None => NoDup(worker_threads)
    /\ Cardinality(AliveSet) <= Cardinality(Pool)
    /\ Cardinality(Pool) <= MaxWorkers
    /\ cpc = "start_clear" => AliveSet = {}
    /\ cpc = "start_spawn" => Len(worker_threads) = ci - 1

\* C5 (as claimed): when start_workers returns, exactly worker_thread_count
\* workers are alive, and live workers always belong to one pool.
C5_ExactlyNAlive ==
    /\ ret[1] = "start_workers" => Cardinality(AliveSet) = worker_thread_count
    /\ OnePool

\* C5 (amended): when start_workers returns, exactly worker_thread_count workers
\* have been started, none of them told to stop, and each is alive unless an
\* invocation of worker_func raised in it (so all are alive when worker_func
\* never raises); live workers always belong to the one current pool: the
\* workers of the pool before were all joined before the first new one started.
C5_PoolAfterStart ==
    /\ ret[1] = "start_workers" =>
          /\ Len(worker_threads) = worker_thread_count
          /\ \A t \in Pool :
                /\ ~threads[t].stop_signal
                /\ threads[t].gen = generation
                /\ threads[t].pc \notin {"free", "done"}
          /\ AliveSet = Pool \ Crashed
          /\ worker_func = "returns" => Cardinality(AliveSet) = worker_thread_count
    /\ OnePool

\* C5 witness: a second pool has just been started, of the largest size, after a
\* pool of another size, and all its workers are alive
C5_Witness ==
    /\ ret[1] = "start_workers"
    /\ generation = 0
    /\ Cardinality(AliveSet) = MaxWorkers
    /\ worker_thread_count = MaxWorkers

\* threads inside an invocation of worker_func or about to append its result
InFlight == {t \in ThreadIds : threads[t].pc \in {"run", "append"}}

\* C6: stop_workers has flagged every worker of the pool before it joins the
\* first one, and returns only when none is alive and no invocation is in
\* progress; a flagged worker leaves an invocation only by the function's own
\* return (or its own raise), then appends the result, and only then reads the
\* flag and ends: when stop_workers returns, every invocation that returned has
\* its record appended.
C6_StopWorkers ==
    /\ [](/\ cpc = "stop_flag" =>
                \A i \in 1..(ci - 1) : threads[worker_threads[i]].stop_signal
          /\ cpc = "stop_join" => \A t \in Pool : threads[t].stop_signal
          /\ ret[1] = "stop_workers" =>
                /\ AliveSet = {}
                /\ \A t \in ThreadIds : threads[t].pc \notin {"call", "run", "append"}
                /\ \A t \in ThreadIds : threads[t].tok = 0
                /\ worker_func = "returns" =>
                      /\ Cardinality(appended) = invoked
                      /\ ~was_reset => Len(temp_stats) = invoked)
    /\ [][\A t \in ThreadIds :
            /\ (threads[t].pc = "run" /\ threads'[t].pc # "run") =>
                  \/ threads'[t].pc = "append" /\ threads'[t].tok = threads[t].tok
                  \/ threads'[t].pc = "crashed" /\ worker_func = "may_raise"
            /\ (threads[t].pc = "append" /\ threads'[t].pc # "append") =>
                  /\ threads'[t].pc = "check"
                  /\ threads[t].tok \in appended'
                  /\ threads[t].lst = "cur" => temp_stats' = Append(temp_stats, threads[t].tok)
            /\ (threads[t].pc # "done" /\ threads'[t].pc = "done") =>
                  /\ threads[t].pc = "check"
                  /\ threads[t].stop_signal
                  /\ threads[t].tok = 0]_vars

\* C6 witness: stop_workers is waiting in its join loop, every worker of a full
\* pool is flagged and one of them is inside an invocation
C6_Witness ==
    /\ cpc = "stop_join" /\ cop = "stop"
    /\ Cardinality(Pool) = MaxWorkers
    /\ \E t \in Pool : threads[t].pc = "run" /\ threads[t].stop_signal
    /\ worker_func = "returns"

\* C7: stop_workers can be called whenever the caller is between calls and
\* always returns True with no worker alive; with no pool ever started it
\* returns at once and changes nothing; a stop_workers that follows a returned
\* stop_workers changes neither threads, pool, queue, collector nor rate.
C7_StopIsSafe ==
    /\ [](/\ ret[1] = "stop_workers" => ret[3] = "True" /\ AliveSet = {}
          /\ Idle => ENABLED StopWorkersCall)
    /\ [][/\ (Idle /\ worker_threads = None /\ cop' = "stop") => FALSE
          /\ (Idle /\ worker_threads = None /\ ret'[1] = "stop_workers") =>
                /\ ret'[3] = "True"
                /\ UNCHANGED <<rps, worker_thread_count, worker_threads, worker_func,
                               temp_stats, held, q, threads, generation, cpc, cop, ci,
                               paceVars, snap, histVars>>
          /\ (stops >= 1 /\ stops' >= 1) =>
                /\ AliveSet' = {}
                /\ cpc' \in {"idle", "stop_flag", "stop_join"}
                /\ UNCHANGED <<rps, worker_thread_count, worker_threads, worker_func,
                               temp_stats, held, q, threads, generation,
                               paceVars, snap, histVars>>]_vars

\* C7 witness: a second stop_workers in a row has returned, after a pool ran,
\* with tokens still queued and records in the collector
C7_Witness ==
    /\ ret = <<"stop_workers", 0, "True">>
    /\ stops = 2
    /\ worker_threads # None /\ Len(worker_threads) = MaxWorkers
    /\ q # <<>>
    /\ temp_stats # <<>>

\* every fired token has been taken from the queue and no worker holds one
AllServiced == q = <<>> /\ \A t \in ThreadIds : threads[t].tok = 0

\* C8: as long as reset_stats was not called, the collector holds exactly the
\* records appended so far, each once; with a worker_func that always returns
\* that is one record per invocation that is not still in progress, and once
\* all fired tokens are serviced the list get_stats returns has one record for
\* each of them, each the result of that token's invocation.
C8_OneRecordPerInvocation ==
    ~was_reset =>
        /\ NoDup(temp_stats)
        /\ Range(temp_stats) = appended
        /\ worker_func = "returns" =>
              /\ Len(temp_stats) + Cardinality(InFlight) = invoked
              /\ AllServiced =>
                    /\ Len(temp_stats) = fired
                    /\ Range(temp_stats) = 1..fired
              /\ ret[1] = "get_stats" => snap = "cur"

\* C8 witness: get_stats returns after two workers appended concurrently, the
\* record of the second token before that of the first
C8_Witness ==
    /\ ret[1] = "get_stats"
    /\ ~was_reset
    /\ worker_func = "returns"
    /\ AllServiced
    /\ temp_stats = <<2, 1>>

\* C9: reset_stats returns True with an empty collector, in one step that
\* touches nothing else of the generator; an append that had read the list
\* before the reset goes to the old list and is dropped from the collector, one
\* that reads it after is retained; a record enters the collector only by the
\* append of a token not appended before, so no record appended before a reset
\* is in the list a later get_stats returns.
C9_ResetStats ==
    /\ [](/\ ret[1] = "reset_stats" => ret[3] = "True" /\ temp_stats = <<>>
          /\ ret[1] = "get_stats" => snap = "cur"
          /\ NoDup(temp_stats)
          /\ Range(temp_stats) \subseteq appended
          /\ Idle => ENABLED ResetStats)
    /\ [][/\ ret'[1] = "reset_stats" =>
                /\ Idle
                /\ \A t \in ThreadIds : threads'[t].lst # "cur"
                /\ UNCHANGED <<rps, worker_thread_count, worker_threads, worker_func, q,
                               generation, cpc, cop, ci, paceVars,
                               fired, dequeued, invoked, appended>>
          /\ \A k \in Range(temp_stats') \ Range(temp_stats) :
                /\ k \notin appended
                /\ appended' = appended \cup {k}
                /\ temp_stats' = Append(temp_stats, k)
          /\ \A t \in ThreadIds :
                (threads[t].pc = "append" /\ threads'[t].pc # "append") =>
                    IF threads[t].lst = "cur"
                    THEN temp_stats' = Append(temp_stats, threads[t].tok)
                    ELSE temp_stats' = temp_stats]_vars

\* C9 witness: reset_stats has just returned while one worker holds the old list
\* for its append (record dropped) and another is still inside its invocation
\* (record retained)
C9_Witness ==
    /\ ret = <<"reset_stats", 0, "True">>
    /\ temp_stats = <<>>
    /\ \E t, u \in ThreadIds :
        /\ threads[t].pc = "append" /\ threads[t].lst \in {"held", "lost"}
        /\ threads[u].pc = "run"

\* C10: a fire_wait call puts exactly one token, at its start, and none in its
\* later steps whatever the sign of wait_time (and none when the sampler
\* raises); fire puts exactly one token in one step, can always be called, and
\* changes nothing but the queue.
C10_OneTokenPerFire ==
    /\ [](Idle /\ fired < MaxFire => ENABLED Fire /\ ENABLED FireWaitFire)
    /\ [][/\ (ppc = "idle" /\ ppc' # "idle") =>
                /\ ppc' = "sample"
                /\ q' = Append(q, fired + 1)
                /\ fired' = fired + 1
          /\ ppc # "idle" => fired' = fired
          /\ (ppc # "idle" /\ ppc' # ppc) => q' = q
          /\ (ppc = "wait" /\ ppc' # ppc) =>
                /\ ppc' = "idle"
                /\ ret' = <<"fire_wait", 0, "None">>
          /\ ret'[1] = "fire" =>
                /\ Idle
                /\ q' = Append(q, fired + 1)
                /\ fired' = fired + 1
                /\ UNCHANGED <<rps, worker_thread_count, worker_threads, worker_func,
                               threads, generation, cpc, cop, ci, temp_stats, held, snap,
                               paceVars, dequeued, invoked, appended, was_reset>>]_vars

\* C10 witness: the second fire_wait call in a row is late (wait_time < 0) and
\* the queue holds the two tokens of the two calls
C10_Witness ==
    /\ ppc = "wait"
    /\ wait_time < 0
    /\ q = <<1, 2>>
    /\ fired = 2

C12_StopTerminates ==
    /\ [](ret[1] = "stop_workers" => ret[3] = "True")
    /\ (cop = "stop" /\ cpc \in {"stop_flag", "stop_join"})
           ~> (ret = <<"stop_workers", 0, "True">>)

\* C12 witness: stop_workers has returned True for a full pool of which one
\* worker had ended by a raise and another ended on its flag
C12_Witness ==
    /\ ret = <<"stop_workers", 0, "True">>
    /\ Cardinality(Pool) = MaxWorkers
    /\ \E t, u \in Pool : threads[t].pc = "crashed" /\ threads[u].pc = "done"

\* records in the order of admission of their tokens
Increasing(seq) == \A i, j \in 1..Len(seq) : i < j => seq[i] < seq[j]

\* C13: the collector changes only by a reset or by a worker's append step,
\* which puts the record of the token that worker ran at the end: the order of
\* the collector is the order of the append steps. In a run in which no pool
\* ever has more than one worker the records are in admission order.
C13_CompletionOrder ==
    /\ [][temp_stats' # temp_stats =>
            \/ temp_stats' = <<>> /\ ret'[1] = "reset_stats"
            \/ \E t \in ThreadIds :
                /\ threads[t].pc = "append" /\ threads'[t].pc = "check"
                /\ temp_stats' = Append(temp_stats, threads[t].tok)]_vars
    /\ [](Cardinality(Pool) <= 1) => [](Increasing(temp_stats) /\ Increasing(held))

\* C13 witness: with two workers the record of the token admitted second is in
\* the collector before the record of the first
C13_Witness ==
    /\ Cardinality(Pool) = 2
    /\ Len(temp_stats) = 2
    /\ temp_stats[1] > temp_stats[2]

\* the content of the list the last get_stats call returned
LastResult == IF snap = "held" THEN held ELSE temp_stats

\* C14: a get_stats call that directly follows a returned reset_stats, no step
\* of a worker or of the caller in between, returns an empty list.
C14_ResetThenGet ==
    [][(ret[1] = "reset_stats" /\ ret'[1] = "get_stats") =>
          /\ snap' = "cur"
          /\ LastResult' = <<>>
          /\ temp_stats' = <<>>]_vars

\* C14 witness: get_stats has returned the empty list after a reset, every
\* token having been run and appended before and no worker being alive
C14_Witness ==
    /\ ret[1] = "get_stats"
    /\ was_reset
    /\ LastResult = <<>>
    /\ appended = Tokens
    /\ worker_threads # None /\ AliveSet = {}

\* C15: get_stats returns the collector as it is, all its records in their
\* order (every record appended so far when no reset was made), and leaves the
\* collector, the queue, the rate, the pool and every worker's position as they
\* were; a second get_stats directly after the first returns the same sequence.
C15_GetStats ==
    /\ [](ret[1] = "get_stats" =>
            /\ LastResult = temp_stats
            /\ ~was_reset => Range(LastResult) = appended /\ NoDup(LastResult))
    /\ [][ret'[1] = "get_stats" =>
            /\ Idle
            /\ LastResult' = temp_stats
            /\ \A t \in ThreadIds :
                /\ threads'[t].pc = threads[t].pc
                /\ threads'[t].tok = threads[t].tok
                /\ threads'[t].stop_signal = threads[t].stop_signal
            /\ ret[1] = "get_stats" => LastResult' = LastResult
            /\ UNCHANGED <<rps, worker_thread_count, worker_threads, worker_func,
                           temp_stats, q, generation, cpc, cop, ci,
                           paceVars, histVars>>]_vars

\* C15 witness: get_stats has returned a non-empty collector filled after a
\* reset, with a token queued and workers alive
C15_Witness ==
    /\ ret[1] = "get_stats"
    /\ was_reset
    /\ LastResult # <<>>
    /\ q # <<>>
    /\ AliveSet # {}

\* the tokens workers have taken from the queue and not yet appended a record for
HeldTokens == {threads[t].tok : t \in ThreadIds} \ {0}

\* C17: no step of stop_workers, start_workers or __del__ changes the queue; a
\* token leaves the queue only at its head, into a live worker that goes on to
\* the invocation, and while no worker is alive the queue only grows; every
\* fired token is in exactly one place: queued once, held by one worker or
\* appended (with a worker_func that always returns, one of the three). Once a
\* pool is started and keeps running, the queued tokens are all taken.
C17_TokensSurviveLifecycle ==
    /\ [](/\ NoDup(q) /\ Increasing(q)
          /\ Range(q) \cap (HeldTokens \cup appended) = {}
          /\ HeldTokens \cap appended = {}
          /\ \A t, u \in ThreadIds :
                (threads[t].tok # 0 /\ threads[t].tok = threads[u].tok) => t = u
          /\ Range(q) \cup HeldTokens \cup appended \subseteq 1..fired
          /\ worker_func = "returns" =>
                Range(q) \cup HeldTokens \cup appended = 1..fired)
    /\ [][/\ (cpc' # cpc \/ ci' # ci \/ cop' # cop
               \/ ret'[1] \in {"stop_workers", "start_workers", "__del__"}) =>
                 UNCHANGED <<q, fired, dequeued, temp_stats, held>>
          /\ AliveSet = {} => q' = q \/ q' = Append(q, fired + 1)
          /\ q' # q =>
                \/ q' = Append(q, fired + 1) /\ fired' = fired + 1
                \/ /\ q' = Tail(q)
                   /\ \E t \in AliveSet :
                        /\ threads[t].pc = "get"
                        /\ threads'[t].pc = "call"
                        /\ threads'[t].tok = Head(q)]_vars
    /\ <>[]Serving => []<>(q = <<>>)

\* C17 witness: stop_workers has returned for a full pool and the tokens fired
\* while it ran are both still queued
C17_Witness ==
    /\ ret = <<"stop_workers", 0, "True">>
    /\ stops = 1
    /\ Cardinality(Pool) = MaxWorkers
    /\ q = <<1, 2>>

\* C18: a live worker's flag stays set; a flagged worker at the loop test ends
\* there, whatever the queue holds; a dequeue is made only by a poll that was
\* entered from a loop test that read the flag unset, and an invocation is
\* started only for the token of such a dequeue: a worker flagged during its
\* poll or its invocation finishes that one round and ends at the next test.
C18_AtMostOneMoreInvocation ==
    /\ [](\A t \in ThreadIds :
            (threads[t].pc = "check" /\ threads[t].stop_signal) =>
                /\ ENABLED WorkerCheck(t)
                /\ ~ENABLED WorkerGet(t) /\ ~ENABLED WorkerCall(t))
    /\ [][\A t \in ThreadIds :
            /\ (Alive(t) /\ threads[t].stop_signal /\ threads'[t].pc # "free") =>
                  threads'[t].stop_signal
            /\ (threads[t].pc = "check" /\ threads[t].stop_signal
                  /\ threads'[t].pc # "check") => threads'[t].pc = "done"
            /\ (threads[t].pc = "done" /\ threads'[t].pc # "done") =>
                  threads'[t].pc = "free"
            /\ (threads[t].pc # "get" /\ threads'[t].pc = "get") =>
                  threads[t].pc = "check" /\ ~threads[t].stop_signal
            /\ (threads[t].pc # "call" /\ threads'[t].pc = "call") =>
                  threads[t].pc = "get" /\ dequeued' = dequeued + 1
            /\ (threads[t].pc # "run" /\ threads'[t].pc = "run") =>
                  threads[t].pc = "call" /\ invoked' = invoked + 1
            /\ (threads[t].pc = "run" /\ threads'[t].pc # "run") =>
                  threads'[t].pc \in {"append", "crashed"}
            /\ (threads[t].pc = "append" /\ threads'[t].pc # "append") =>
                  threads'[t].pc = "check"]_vars

\* C18 witness: stop_workers is joining, every worker of the pool has ended on
\* its flag, one of them after a last invocation, and a token is still queued
C18_Witness ==
    /\ cpc = "stop_join"
    /\ Cardinality(Pool) = MaxWorkers
    /\ \A t \in Pool : threads[t].pc = "done" /\ threads[t].stop_signal
    /\ q # <<>>
    /\ appended # {}

\* token k was fired and is neither queued, held by a worker nor appended: the
\* invocation made for it raised
Lost(k) == k <= fired /\ k \notin (Range(q) \cup HeldTokens \cup appended)

C20_LiveCollector ==
    /\ [](ret[1] = "get_stats" => snap = "cur")
    /\ [][/\ ret'[1] = "reset_stats" =>
                /\ temp_stats' = <<>>
                /\ snap # "none" => snap' = "held" /\ LastResult' = LastResult
          /\ (snap # "none" /\ ret'[1] # "get_stats") =>
                \/ LastResult' = LastResult
                \/ \E t \in ThreadIds :
                     /\ threads[t].pc = "append" /\ threads'[t].pc = "check"
                     /\ LastResult' = Append(LastResult, threads[t].tok)
          /\ \A t \in ThreadIds :
                (/\ threads[t].pc = "append" /\ threads'[t].pc = "check"
                 /\ threads[t].lst = snap) =>
                    LastResult' = Append(LastResult, threads[t].tok)]_vars

\* C20 witness: the list handed out before a reset still holds the record it
\* had, while the new collector holds the record appended after the reset
C20_Witness ==
    /\ snap = "held"
    /\ LastResult = <<1>>
    /\ temp_stats = <<2>>

====
